---- MODULE Spec2Model ----
(***************************************************************************)
(* The logging dispatcher of mutt/logging.c: the File sink (LogFileFP,     *)
(* LogFileName, LogFileLevel, LogFileVersion), the Console sink            *)
(* (log_disp_stderr), the Queue sink (LogQueue, LogQueueCount,             *)
(* LogQueueMax) and the timestamp cache.                                   *)
(*                                                                         *)
(* A C string is modelled as a sequence of segments [id, n, of]: the first *)
(* n characters of the text id, whose full length is of.  A NULL pointer   *)
(* is the value NULL.  A FILE* is modelled by the name of the file it was  *)
(* opened on.  Besides the program's variables the model keeps what the    *)
(* last call did: its name (op), its arguments and the answers of the      *)
(* environment it met (arg), its return value                              *)
(* (ret), the lines it wrote to the log file (fileOut), to stderr (errOut) *)
(* and to the file given to log_queue_save (saveOut), and the calls it     *)
(* made to the dispatcher it was given (calls).                            *)
(*                                                                         *)
(* MuttLogger is the name of the dispatcher the pointer holds.  allocated  *)
(* is the number of LogLines that log_disp_queue has allocated and that    *)
(* have not been freed.  flush_ll is the position in LogQueue of the loop  *)
(* variable ll of a log_queue_flush that is running step by step, 0 when   *)
(* none is.                                                                *)
(*                                                                         *)
(* mutt_message() is the user-message notifier, an external collaborator:  *)
(* the calls to it are not modelled.                                       *)
(***************************************************************************)
EXTENDS Integers, Sequences, FiniteSets, TLC

VARIABLES LogFileFP, LogFileName, LogFileLevel, LogFileVersion,
          LogQueue, LogQueueCount, LogQueueMax,
          MuttLogger, flush_ll, allocated,
          errno, last, buf,
          op, arg, ret, fileOut, errOut, saveOut, calls

vars == <<LogFileFP, LogFileName, LogFileLevel, LogFileVersion,
          LogQueue, LogQueueCount, LogQueueMax, MuttLogger, flush_ll, allocated,
          errno, last, buf, op, arg, ret, fileOut, errOut, saveOut, calls>>

fileVars == <<LogFileFP, LogFileName, LogFileLevel, LogFileVersion>>
queueVars == <<LogQueue, LogQueueCount, LogQueueMax>>
tsVars == <<last, buf>>

---------------------------------------------------------------------------
(* Program constants *)

NULL == "NULL"

LL_PERROR == -3
LL_ERROR == -2
LL_WARNING == -1
LL_MESSAGE == 0
LL_DEBUG1 == 1
LL_DEBUG5 == 5

LONG_STRING == 1024

LevelAbbr == <<"P", "E", "W", "M", "1", "2", "3", "4", "5">>

---------------------------------------------------------------------------
(* Bounds and input sets *)

\* the largest queue length explored, and the largest size given to
\* log_queue_set_max_size
MaxQueue == 2

\* the number of LogLines added in a row to a bounded queue
MaxInserts == 4

\* the latest time given to timestamp() when it is called on its own
MaxTime == 9

\* the number of LogLines the memory has room for: mutt_mem_calloc does not
\* return when there is no room for one more
MaxAlloc == 4

\* values of errno: 0 and ENOENT
Errnos == {0, 2}

\* what time(NULL) can return
Clock == {2, 3}

\* explicit stamp arguments (0: use the current time)
Stamps == {0, 1}

\* log file names given to log_file_set_filename
Names == {"a.log", "b.log"}

\* program versions given to log_file_set_version
Versions == {NULL, "-1.0"}

\* level arguments: the whole range and one value beyond each end
Levels == (LL_PERROR - 1) .. (LL_DEBUG5 + 1)

\* function arguments
Functions == {NULL, "f"}


---------------------------------------------------------------------------
(* C strings *)

\* the string holding the whole text id, of length n
Str(id, n) == << [id |-> id, n |-> n, of |-> n] >>

RECURSIVE StrLen(_)
StrLen(s) == IF s = <<>> THEN 0 ELSE s[1].n + StrLen(Tail(s))

\* the first room characters of s: what snprintf(buf, room + 1, "%s", s)
\* leaves in buf
RECURSIVE Truncate(_, _)
Truncate(s, room) ==
  IF s = <<>> \/ room <= 0 THEN <<>>
  ELSE IF s[1].n <= room
       THEN <<s[1]>> \o Truncate(Tail(s), room - s[1].n)
       ELSE << [s[1] EXCEPT !.n = room] >>

strerror(e) == IF e = 0 THEN "Success" ELSE "No such file or directory"

\* the expansion of ": %s" with strerror(err)
ErrorText(err) == LET t == ": " \o strerror(err) IN Str(t, Len(t))

\* a library call may leave any value in errno
MayClobber(e) == {e} \cup Errnos

---------------------------------------------------------------------------
(* timestamp(): the statics last and buf after the call; the string        *)
(* returned is the new buf.  now is what time(NULL) returns.               *)

strftime(t) == <<"%Y-%m-%d %H:%M:%S", t>>

timestamp(stamp, now, ts) ==
  LET s == IF stamp = 0 THEN now ELSE stamp
  IN  IF s # ts.last THEN [last |-> s, buf |-> strftime(s)] ELSE ts

TS == [last |-> last, buf |-> buf]

---------------------------------------------------------------------------
(* The File sink.  The helpers return the state a call leaves: fp, the     *)
(* timestamp statics ts, the lines written (out) and the return value.     *)

NONULL(s) == IF s = NULL THEN "" ELSE s

\* CloseFile with the handle left as it was after the closing line
CloseFile_KeepsHandle(fp, now, ts) ==
  IF fp = NULL
  THEN [fp |-> NULL, ts |-> ts, out |-> <<>>]
  ELSE LET t == timestamp(0, now, ts)
       IN  [fp |-> fp, ts |-> t, out |-> << <<fp, <<"closing", t.buf>> >> >>]

\* log_file_close(verbose) on handle fp
CloseFile(fp, now, ts) ==
  IF fp = NULL
  THEN [fp |-> NULL, ts |-> ts, out |-> <<>>]
  ELSE LET t == timestamp(0, now, ts)
       IN  [fp |-> NULL, ts |-> t, out |-> << <<fp, <<"closing", t.buf>> >> >>]

\* OpenFile with the old log file closed only once the new one is open
OpenFile_ClosesAfterOpening(fp, name, version, level, opened, now1, now2, ts) ==
  IF name = NULL \/ ~opened
  THEN [fp |-> fp, ts |-> ts, out |-> <<>>, ret |-> -1]
  ELSE LET c == CloseFile(fp, now1, ts)
           t == timestamp(0, now2, c.ts)
       IN  [fp |-> name, ts |-> t, ret |-> 0,
            out |-> c.out \o
              << <<name, <<"banner", t.buf, NONULL(version), level>> >> >>]

\* log_file_open(verbose): opened says whether mutt_file_fopen succeeds,
\* now1 and now2 are the two readings of the clock
OpenFile(fp, name, version, level, opened, now1, now2, ts) ==
  IF name = NULL
  THEN [fp |-> fp, ts |-> ts, out |-> <<>>, ret |-> -1]
  ELSE LET c == CloseFile(fp, now1, ts)
       IN  IF ~opened
           THEN [fp |-> NULL, ts |-> c.ts, out |-> c.out, ret |-> -1]
           ELSE LET t == timestamp(0, now2, c.ts)
                IN  [fp |-> name, ts |-> t, ret |-> 0,
                     out |-> c.out \o
                       << <<name, <<"banner", t.buf, NONULL(version),
                                    level>> >> >>]

Init ==
  /\ LogFileFP = NULL
  /\ LogFileName = NULL
  /\ LogFileLevel = 0
  /\ LogFileVersion = NULL
  /\ LogQueue = <<>>
  /\ LogQueueCount = 0
  /\ LogQueueMax = 0
  /\ MuttLogger = "log_disp_stderr"
  /\ flush_ll = 0
  /\ allocated = 0
  /\ errno = 0
  /\ last = 0
  /\ buf = <<>>
  /\ op = "init"
  /\ arg = <<>>
  /\ ret = 0
  /\ fileOut = <<>>
  /\ errOut = <<>>
  /\ saveOut = <<>>
  /\ calls = <<>>

\* the clock readings that matter to a call with this stamp
Readings(stamp) == IF stamp = 0 THEN Clock ELSE {CHOOSE t \in Clock : TRUE}

log_file_set_filename(file) ==
  /\ op' = "log_file_set_filename"
  /\ UNCHANGED <<MuttLogger, flush_ll>>
  /\ allocated' = allocated
  /\ errOut' = <<>>
  /\ saveOut' = <<>>
  /\ calls' = <<>>
  /\ UNCHANGED <<LogFileLevel, LogFileVersion, queueVars>>
  /\ IF LogFileName = file
     THEN /\ ret' = 0
          /\ arg' = [file |-> file, opened |-> FALSE]
          /\ fileOut' = <<>>
          /\ UNCHANGED <<LogFileFP, LogFileName, errno, tsVars>>
     ELSE /\ LogFileName' = file
          /\ IF LogFileFP = NULL
             THEN /\ ret' = -1
                  /\ arg' = [file |-> file, opened |-> FALSE]
                  /\ fileOut' = <<>>
                  /\ UNCHANGED <<LogFileFP, errno, tsVars>>
             ELSE \E opened \in (IF file = NULL THEN {FALSE} ELSE BOOLEAN),
                     now1 \in Clock, now2 \in Clock :
                    LET r == OpenFile(LogFileFP, file, LogFileVersion,
                                      LogFileLevel, opened, now1, now2, TS)
                    IN  /\ now1 <= now2
                        /\ arg' = [file |-> file, opened |-> opened]
                        /\ LogFileFP' = r.fp
                        /\ last' = r.ts.last
                        /\ buf' = r.ts.buf
                        /\ fileOut' = r.out
                        /\ ret' = 0
                        /\ errno' \in (IF file = NULL THEN {errno}
                                       ELSE MayClobber(errno))

\* OutOfRange with the lower end of the range left unchecked
OutOfRange_AboveOnly(level) == level > 5

\* the range test of log_file_set_level
OutOfRange(level) == (level < 0) \/ (level > 5)

log_file_set_level(level) ==
  /\ op' = "log_file_set_level"
  /\ UNCHANGED <<MuttLogger, flush_ll>>
  /\ allocated' = allocated
  /\ errOut' = <<>>
  /\ saveOut' = <<>>
  /\ calls' = <<>>
  /\ UNCHANGED <<LogFileName, LogFileVersion, queueVars>>
  /\ IF OutOfRange(level)
     THEN /\ ret' = -1
          /\ arg' = [level |-> level, opened |-> FALSE]
          /\ fileOut' = <<>>
          /\ UNCHANGED <<LogFileFP, LogFileLevel, errno, tsVars>>
     ELSE IF level = LogFileLevel
     THEN /\ ret' = 0
          /\ arg' = [level |-> level, opened |-> FALSE]
          /\ fileOut' = <<>>
          /\ UNCHANGED <<LogFileFP, LogFileLevel, errno, tsVars>>
     ELSE /\ LogFileLevel' = level
          /\ ret' = 0
          /\ IF level = 0
             THEN \E now \in Clock :
                    LET c == CloseFile(LogFileFP, now, TS)
                    IN  /\ arg' = [level |-> level, opened |-> FALSE]
                        /\ LogFileFP' = c.fp
                        /\ last' = c.ts.last
                        /\ buf' = c.ts.buf
                        /\ fileOut' = c.out
                        /\ errno' \in (IF LogFileFP = NULL THEN {errno}
                                       ELSE MayClobber(errno))
             ELSE IF LogFileFP # NULL
             THEN /\ arg' = [level |-> level, opened |-> FALSE]
                  /\ fileOut' = <<>>
                  /\ UNCHANGED <<LogFileFP, errno, tsVars>>
             ELSE \E opened \in (IF LogFileName = NULL THEN {FALSE}
                                 ELSE BOOLEAN),
                     now \in Clock :
                    LET r == OpenFile(LogFileFP, LogFileName, LogFileVersion,
                                      level, opened, now, now, TS)
                    IN  /\ arg' = [level |-> level, opened |-> opened]
                        /\ LogFileFP' = r.fp
                        /\ last' = r.ts.last
                        /\ buf' = r.ts.buf
                        /\ fileOut' = r.out
                        /\ errno' \in (IF LogFileName = NULL THEN {errno}
                                       ELSE MayClobber(errno))

log_file_set_version(version) ==
  /\ op' = "log_file_set_version"
  /\ UNCHANGED <<MuttLogger, flush_ll>>
  /\ allocated' = allocated
  /\ arg' = [version |-> version]
  /\ LogFileVersion' = version
  /\ ret' = 0
  /\ fileOut' = <<>>
  /\ errOut' = <<>>
  /\ saveOut' = <<>>
  /\ calls' = <<>>
  /\ UNCHANGED <<LogFileFP, LogFileName, LogFileLevel, queueVars, errno, tsVars>>

log_file_close(verbose) ==
  /\ op' = "log_file_close"
  /\ UNCHANGED <<MuttLogger, flush_ll>>
  /\ allocated' = allocated
  /\ arg' = <<>>
  /\ ret' = 0
  /\ errOut' = <<>>
  /\ saveOut' = <<>>
  /\ calls' = <<>>
  /\ UNCHANGED <<LogFileName, LogFileLevel, LogFileVersion, queueVars>>
  /\ \E now \in Clock :
       LET c == CloseFile(LogFileFP, now, TS)
       IN  /\ LogFileFP' = c.fp
           /\ last' = c.ts.last
           /\ buf' = c.ts.buf
           /\ fileOut' = c.out
           /\ errno' \in (IF LogFileFP = NULL THEN {errno}
                          ELSE MayClobber(errno))

log_file_open(verbose) ==
  /\ op' = "log_file_open"
  /\ UNCHANGED <<MuttLogger, flush_ll>>
  /\ allocated' = allocated
  /\ errOut' = <<>>
  /\ saveOut' = <<>>
  /\ calls' = <<>>
  /\ UNCHANGED <<LogFileName, LogFileLevel, LogFileVersion, queueVars>>
  /\ \E opened \in (IF LogFileName = NULL THEN {FALSE} ELSE BOOLEAN),
        now1 \in Clock, now2 \in Clock :
       LET r == OpenFile(LogFileFP, LogFileName, LogFileVersion, LogFileLevel,
                         opened, now1, now2, TS)
       IN  /\ now1 <= now2
           /\ arg' = [opened |-> opened]
           /\ LogFileFP' = r.fp
           /\ last' = r.ts.last
           /\ buf' = r.ts.buf
           /\ fileOut' = r.out
           /\ ret' = r.ret
           /\ errno' \in (IF LogFileName = NULL THEN {errno}
                          ELSE MayClobber(errno))

---------------------------------------------------------------------------
(* The dispatchers.  A call c is the record of the arguments               *)
(* [stamp, file, line, function, level, text], text being the expansion of *)
(* the format string with its arguments.                                   *)

\* the character LevelAbbr[level + 3]; outside the table the read is out of
\* bounds
LevelChar(level) ==
  IF level \in LL_PERROR .. LL_DEBUG5 THEN LevelAbbr[level + 4]
  ELSE "out of bounds"

\* DispFile with the threshold itself filtered out
DispFile_BelowThreshold(fp, threshold, ts, err, c, now) ==
  IF (fp = NULL) \/ (c.level < LL_PERROR) \/ (c.level >= threshold)
  THEN [ret |-> 0, out |-> <<>>, ts |-> ts, wrote |-> FALSE]
  ELSE LET function == IF c.function = NULL THEN "UNKNOWN" ELSE c.function
           t == timestamp(c.stamp, now, ts)
           n == StrLen(c.text)
           suffix == IF c.level = LL_PERROR THEN ErrorText(err) ELSE <<>>
           nl == (c.level = LL_PERROR) \/ (c.level <= 0)
       IN  [ret |-> IF c.level = LL_PERROR THEN n
                    ELSE IF c.level <= 0 THEN n + 1 ELSE n,
            out |-> << <<fp, <<"record", t.buf, LevelChar(c.level), function,
                              c.text, suffix, nl>> >> >>,
            ts |-> t,
            wrote |-> TRUE]

\* log_disp_file: err is errno at the call
DispFile(fp, threshold, ts, err, c, now) ==
  IF (fp = NULL) \/ (c.level < LL_PERROR) \/ (c.level > threshold)
  THEN [ret |-> 0, out |-> <<>>, ts |-> ts, wrote |-> FALSE]
  ELSE LET function == IF c.function = NULL THEN "UNKNOWN" ELSE c.function
           t == timestamp(c.stamp, now, ts)
           n == StrLen(c.text)
           suffix == IF c.level = LL_PERROR THEN ErrorText(err) ELSE <<>>
           nl == (c.level = LL_PERROR) \/ (c.level <= 0)
       IN  [ret |-> IF c.level = LL_PERROR THEN n
                    ELSE IF c.level <= 0 THEN n + 1 ELSE n,
            out |-> << <<fp, <<"record", t.buf, LevelChar(c.level), function,
                              c.text, suffix, nl>> >> >>,
            ts |-> t,
            wrote |-> TRUE]

\* DispStderr with nothing passed on to log_disp_file
DispStderr_NotForwarded(fp, threshold, ts, e1, e2, c, now, tty) ==
  IF (c.level < LL_PERROR) \/ (c.level > threshold)
  THEN [ret |-> 0, out |-> <<>>, err |-> <<>>, ts |-> ts, wrote |-> FALSE]
  ELSE LET b == Truncate(c.text, LONG_STRING - 1)
           colour == IF tty /\ c.level \in {LL_PERROR, LL_ERROR} THEN 31
                     ELSE IF tty /\ c.level = LL_WARNING THEN 33
                     ELSE 0
           suffix == IF c.level = LL_PERROR THEN ErrorText(e2) ELSE <<>>
           nl == c.level < 1
       IN  [ret |-> StrLen(c.text) + (IF colour > 0 THEN 7 ELSE 0)
                      + StrLen(suffix) + (IF colour > 0 THEN 4 ELSE 0)
                      + (IF nl THEN 1 ELSE 0),
            out |-> <<>>,
            err |-> << <<"record", colour, b, suffix, nl>> >>,
            ts |-> ts,
            wrote |-> FALSE]

\* log_disp_stderr: e1 is errno after vsnprintf (what log_disp_file finds),
\* e2 is errno after log_disp_file (what line 457 reads)
DispStderr(fp, threshold, ts, e1, e2, c, now, tty) ==
  IF (c.level < LL_PERROR) \/ (c.level > threshold)
  THEN [ret |-> 0, out |-> <<>>, err |-> <<>>, ts |-> ts, wrote |-> FALSE]
  ELSE LET b == Truncate(c.text, LONG_STRING - 1)
           f == DispFile(fp, threshold, ts, e1,
                         [c EXCEPT !.text = b], now)
           colour == IF tty /\ c.level \in {LL_PERROR, LL_ERROR} THEN 31
                     ELSE IF tty /\ c.level = LL_WARNING THEN 33
                     ELSE 0
           suffix == IF c.level = LL_PERROR THEN ErrorText(e2) ELSE <<>>
           nl == c.level < 1
       IN  [ret |-> StrLen(c.text) + (IF colour > 0 THEN 7 ELSE 0)
                      + StrLen(suffix) + (IF colour > 0 THEN 4 ELSE 0)
                      + (IF nl THEN 1 ELSE 0),
            out |-> f.out,
            err |-> << <<"record", colour, b, suffix, nl>> >>,
            ts |-> f.ts,
            wrote |-> f.wrote]

\* the values of errno a log_disp_stderr call may read: <<e1, e2>>.  The
\* formatting and, when it writes, log_disp_file may change errno.  For a
\* level other than LL_PERROR the values read are not used.
ErrnoReads(fp, threshold, c, e) ==
  IF c.level # LL_PERROR THEN {<<e, e>>}
  ELSE {es \in MayClobber(e) \X MayClobber(e) :
          (fp = NULL \/ c.level > threshold) => es[2] = es[1]}

\* the calls the File and the Console sink are made with: every level with
\* a text, and an error and a debug line with an empty text
DirectCalls ==
  [stamp : Stamps, file : {"x.c"}, line : {10}, function : Functions,
   level : Levels, text : {Str("hello", 5)}]
  \cup [stamp : {1}, file : {"x.c"}, line : {10}, function : {"f"},
        level : {LL_PERROR, LL_DEBUG1}, text : {<<>>}]

log_disp_file(c) ==
  /\ op' = "log_disp_file"
  /\ UNCHANGED <<MuttLogger, flush_ll>>
  /\ allocated' = allocated
  /\ arg' = c
  /\ errOut' = <<>>
  /\ saveOut' = <<>>
  /\ calls' = <<>>
  /\ UNCHANGED <<fileVars, queueVars>>
  /\ \E now \in Readings(c.stamp) :
       LET r == DispFile(LogFileFP, LogFileLevel, TS, errno, c, now)
       IN  /\ ret' = r.ret
           /\ fileOut' = r.out
           /\ last' = r.ts.last
           /\ buf' = r.ts.buf
           /\ errno' \in (IF r.wrote THEN MayClobber(errno) ELSE {errno})

log_disp_stderr(c) ==
  /\ op' = "log_disp_stderr"
  /\ UNCHANGED <<MuttLogger, flush_ll>>
  /\ allocated' = allocated
  /\ arg' = c
  /\ saveOut' = <<>>
  /\ calls' = <<>>
  /\ UNCHANGED <<fileVars, queueVars>>
  /\ \E now \in Readings(c.stamp), tty \in BOOLEAN,
        es \in ErrnoReads(LogFileFP, LogFileLevel, c, errno) :
       LET r == DispStderr(LogFileFP, LogFileLevel, TS, es[1], es[2], c, now,
                           tty)
       IN  /\ ret' = r.ret
           /\ fileOut' = r.out
           /\ errOut' = r.err
           /\ last' = r.ts.last
           /\ buf' = r.ts.buf
           /\ errno' \in (IF r.err # <<>> THEN MayClobber(errno) ELSE {errno})

---------------------------------------------------------------------------
(* The Queue sink.  A LogLine is [time, file, line, function, level,       *)
(* message].                                                               *)

\* QueueAdd evicting only once the count is above the bound
QueueAdd_EvictsLate(q, count, max, ll) ==
  IF (max > 0) /\ (count > max)
  THEN [q |-> Tail(Append(q, ll)), count |-> count]
  ELSE [q |-> Append(q, ll), count |-> count + 1]

\* log_queue_add: the queue and the count after adding ll
QueueAdd(q, count, max, ll) ==
  IF (max > 0) /\ (count >= max)
  THEN [q |-> Tail(Append(q, ll)), count |-> count]
  ELSE [q |-> Append(q, ll), count |-> count + 1]

\* the calls log_disp_queue is made with: an error with errno, one whose
\* text leaves no room in the buffer for the whole description, a debug
\* line, and a level outside the range
QueueCalls ==
  { [stamp |-> 1, file |-> "x.c", line |-> 10, function |-> NULL,
     level |-> LL_PERROR, text |-> Str("hello", 5)],
    [stamp |-> 1, file |-> "y.c", line |-> 20, function |-> "f",
     level |-> LL_PERROR, text |-> Str("long", LONG_STRING - 3)],
    [stamp |-> 1, file |-> "y.c", line |-> 20, function |-> "f",
     level |-> LL_DEBUG1, text |-> Str("hello", 5)],
    [stamp |-> 0, file |-> "y.c", line |-> 20, function |-> NULL,
     level |-> LL_DEBUG5 + 1, text |-> Str("hello", 5)] }

\* MakeLogLine with the level stored as given
MakeLogLine_KeepsLevel(c, err, now) ==
  LET b == Truncate(c.text, LONG_STRING - 1)
      r == StrLen(c.text)
  IN  [time |-> IF c.stamp # 0 THEN c.stamp ELSE now,
       file |-> c.file,
       line |-> c.line,
       function |-> c.function,
       level |-> c.level,
       message |-> IF c.level = LL_PERROR
                   THEN b \o Truncate(ErrorText(err), LONG_STRING - r - 1)
                   ELSE b]

\* the LogLine log_disp_queue builds: err is errno at the call
MakeLogLine(c, err, now) ==
  LET b == Truncate(c.text, LONG_STRING - 1)
      r == StrLen(c.text)
  IN  [time |-> IF c.stamp # 0 THEN c.stamp ELSE now,
       file |-> c.file,
       line |-> c.line,
       function |-> c.function,
       level |-> IF c.level = LL_PERROR THEN LL_ERROR ELSE c.level,
       message |-> IF c.level = LL_PERROR
                   THEN b \o Truncate(ErrorText(err), LONG_STRING - r - 1)
                   ELSE b]

\* the offset in buf at which log_disp_queue has the error description
\* written: what vsnprintf returned, the length of the whole text
SuffixOffset(c) == StrLen(c.text)

\* the second snprintf of log_disp_queue is given a pointer beyond the end
\* of buf, and sizeof(buf) - ret, computed in size_t, has wrapped around
OutsideBuf(c) == c.level = LL_PERROR /\ SuffixOffset(c) > LONG_STRING

\* log_disp_queue.  When the description is written outside buf the
\* behaviour is undefined: either the bytes land in other memory of the
\* stack and the call goes on with buf as vsnprintf left it, or the
\* program is stopped (op = "crash").
log_disp_queue(c) ==
  \E crashed \in (IF OutsideBuf(c) THEN BOOLEAN ELSE {FALSE}) :
    IF crashed
    THEN /\ op' = "crash"
         /\ arg' = c
         /\ UNCHANGED <<fileVars, queueVars, MuttLogger, flush_ll, allocated,
                        errno, tsVars, ret, fileOut, errOut, saveOut, calls>>
    ELSE /\ \E now \in Readings(c.stamp) :
              LET ll == MakeLogLine(c, errno, now)
                  a == QueueAdd(LogQueue, LogQueueCount, LogQueueMax, ll)
              IN  /\ Len(a.q) <= MaxQueue
                  /\ allocated < MaxAlloc
                  /\ LogQueue' = a.q
                  /\ LogQueueCount' = a.count
         /\ ret' = StrLen(c.text)
                    + (IF c.level = LL_PERROR THEN StrLen(ErrorText(errno))
                       ELSE 0)
         /\ op' = "log_disp_queue"
         /\ UNCHANGED <<MuttLogger, flush_ll>>
         /\ allocated' = allocated + 1
         /\ arg' = c
         /\ errno' \in MayClobber(errno)
         /\ fileOut' = <<>>
         /\ errOut' = <<>>
         /\ saveOut' = <<>>
         /\ calls' = <<>>
         /\ UNCHANGED <<fileVars, LogQueueMax, tsVars>>

log_queue_set_max_size(size) ==
  /\ op' = "log_queue_set_max_size"
  /\ UNCHANGED <<MuttLogger, flush_ll>>
  /\ allocated' = allocated
  /\ arg' = [size |-> size]
  /\ LogQueueMax' = IF size < 0 THEN 0 ELSE size
  /\ ret' = 0
  /\ fileOut' = <<>>
  /\ errOut' = <<>>
  /\ saveOut' = <<>>
  /\ calls' = <<>>
  /\ UNCHANGED <<fileVars, LogQueue, LogQueueCount, errno, tsVars>>

log_queue_empty ==
  /\ op' = "log_queue_empty"
  /\ UNCHANGED <<MuttLogger, flush_ll>>
  /\ allocated' = allocated - Len(LogQueue)
  /\ arg' = <<>>
  /\ LogQueue' = <<>>
  /\ LogQueueCount' = 0
  /\ ret' = 0
  /\ fileOut' = <<>>
  /\ errOut' = <<>>
  /\ saveOut' = <<>>
  /\ calls' = <<>>
  /\ UNCHANGED <<fileVars, LogQueueMax, errno, tsVars>>

\* ReplayCall with the current time in place of the LogLine's
ReplayCall_CurrentTime(ll) ==
  [stamp |-> 0, file |-> ll.file, line |-> ll.line,
   function |-> ll.function, level |-> ll.level, text |-> ll.message]

\* the call log_queue_flush makes for the LogLine ll
ReplayCall(ll) ==
  [stamp |-> ll.time, file |-> ll.file, line |-> ll.line,
   function |-> ll.function, level |-> ll.level, text |-> ll.message]

\* one call of the dispatcher disp
Dispatch(disp, fp, threshold, ts, e1, e2, c, now, tty) ==
  IF disp = "log_disp_file"
  THEN LET f == DispFile(fp, threshold, ts, e1, c, now)
       IN  [out |-> f.out, err |-> <<>>, ts |-> f.ts]
  ELSE LET d == DispStderr(fp, threshold, ts, e1, e2, c, now, tty)
       IN  [out |-> d.out, err |-> d.err, ts |-> d.ts]

\* the loop of log_queue_flush over q from its i-th LogLine on, through the
\* dispatcher disp: es[i] are the values of errno the i-th call reads
RECURSIVE Replay(_, _, _, _, _, _, _, _, _)
Replay(disp, q, i, fp, threshold, ts, es, now, tty) ==
  IF i > Len(q)
  THEN [ts |-> ts, out |-> <<>>, err |-> <<>>, calls |-> <<>>]
  ELSE LET c == ReplayCall(q[i])
           r == Dispatch(disp, fp, threshold, ts, es[i][1], es[i][2], c, now,
                         tty)
           rest == Replay(disp, q, i + 1, fp, threshold, r.ts, es, now, tty)
       IN  [ts |-> rest.ts,
            out |-> r.out \o rest.out,
            err |-> r.err \o rest.err,
            calls |-> <<c>> \o rest.calls]

Dispatchers == {"log_disp_file", "log_disp_stderr"}

\* the values of errno the calls of a replay of q may read
ReplayReads(q, e) ==
  {es \in [1 .. Len(q) -> MayClobber(e) \X MayClobber(e)] :
     \A i \in 1 .. Len(q) : q[i].level # LL_PERROR => es[i] = <<e, e>>}

log_queue_flush(disp) ==
  /\ op' = "log_queue_flush"
  /\ UNCHANGED <<MuttLogger, flush_ll>>
  /\ allocated' = allocated - Len(LogQueue)
  /\ arg' = [disp |-> disp]
  /\ \E now \in Readings(1), tty \in BOOLEAN,
        es \in ReplayReads(LogQueue, errno) :
       LET r == Replay(disp, LogQueue, 1, LogFileFP, LogFileLevel, TS, es,
                       now, tty)
       IN  /\ fileOut' = r.out
           /\ errOut' = r.err
           /\ calls' = r.calls
           /\ last' = r.ts.last
           /\ buf' = r.ts.buf
           /\ errno' \in (IF r.out = <<>> /\ r.err = <<>> THEN {errno}
                          ELSE MayClobber(errno))
  /\ LogQueue' = <<>>
  /\ LogQueueCount' = 0
  /\ ret' = 0
  /\ saveOut' = <<>>
  /\ UNCHANGED <<fileVars, LogQueueMax>>

\* the dispatchers a caller can store in MuttLogger or give to
\* log_queue_flush
AllDispatchers == Dispatchers \cup {"log_disp_queue"}

\* a caller's assignment MuttLogger = disp
assign_MuttLogger(disp) ==
  /\ op' = "MuttLogger"
  /\ arg' = [disp |-> disp]
  /\ MuttLogger' = disp
  /\ ret' = 0
  /\ fileOut' = <<>>
  /\ errOut' = <<>>
  /\ saveOut' = <<>>
  /\ calls' = <<>>
  /\ UNCHANGED <<fileVars, queueVars, flush_ll, allocated, errno, tsVars>>

(* log_queue_flush step by step, for a dispatcher that may be              *)
(* log_disp_queue itself: the initialisation of STAILQ_FOREACH, one        *)
(* iteration, and the log_queue_empty that follows the loop.  fileOut,     *)
(* errOut and calls accumulate over the iterations.                        *)

\* a log_queue_flush is between its first and its last step
Flushing == op \in {"log_queue_flush.first", "log_queue_flush.disp"}

\* log_queue_flush_first with the target made the active dispatcher
log_queue_flush_first_InstallsTarget(disp) ==
  /\ flush_ll = 0
  /\ op' = "log_queue_flush.first"
  /\ arg' = [disp |-> disp]
  /\ flush_ll' = 1
  /\ MuttLogger' = disp
  /\ ret' = 0
  /\ fileOut' = <<>>
  /\ errOut' = <<>>
  /\ saveOut' = <<>>
  /\ calls' = <<>>
  /\ UNCHANGED <<fileVars, queueVars, allocated, errno, tsVars>>

\* ll = STAILQ_FIRST(&LogQueue)
log_queue_flush_first(disp) ==
  /\ flush_ll = 0
  /\ op' = "log_queue_flush.first"
  /\ arg' = [disp |-> disp]
  /\ flush_ll' = 1
  /\ ret' = 0
  /\ fileOut' = <<>>
  /\ errOut' = <<>>
  /\ saveOut' = <<>>
  /\ calls' = <<>>
  /\ UNCHANGED <<fileVars, queueVars, MuttLogger, allocated, errno, tsVars>>

\* one iteration: disp(ll->time, ..., "%s", ll->message), then
\* ll = STAILQ_NEXT(ll).  Through log_disp_queue the call adds a LogLine
\* at the tail; when log_queue_add unlinks the head, the LogLines move up
\* one position, and the unlinked head still points to its successor.
\* When mutt_mem_calloc finds no room the program does not go on.
log_queue_flush_disp ==
  /\ Flushing
  /\ flush_ll \in 1 .. Len(LogQueue)
  /\ LET c == ReplayCall(LogQueue[flush_ll])
     IN  IF arg.disp = "log_disp_queue"
         THEN IF allocated >= MaxAlloc
              THEN /\ op' = "out of memory"
                   /\ UNCHANGED <<queueVars, flush_ll, allocated, errno,
                                  tsVars, fileOut, errOut, calls>>
              ELSE \E now \in Readings(c.stamp) :
                     LET a == QueueAdd(LogQueue, LogQueueCount, LogQueueMax,
                                       MakeLogLine(c, errno, now))
                     IN  /\ op' = "log_queue_flush.disp"
                         /\ LogQueue' = a.q
                         /\ LogQueueCount' = a.count
                         /\ allocated' = allocated + 1
                         /\ flush_ll' = IF a.count = LogQueueCount
                                        THEN flush_ll ELSE flush_ll + 1
                         /\ calls' = Append(calls, c)
                         /\ UNCHANGED <<LogQueueMax, errno, tsVars, fileOut,
                                        errOut>>
         ELSE \E now \in Readings(c.stamp), tty \in BOOLEAN :
                LET r == Dispatch(arg.disp, LogFileFP, LogFileLevel, TS,
                                  errno, errno, c, now, tty)
                IN  /\ op' = "log_queue_flush.disp"
                    /\ fileOut' = fileOut \o r.out
                    /\ errOut' = errOut \o r.err
                    /\ calls' = Append(calls, c)
                    /\ last' = r.ts.last
                    /\ buf' = r.ts.buf
                    /\ flush_ll' = flush_ll + 1
                    /\ UNCHANGED <<queueVars, allocated, errno>>
  /\ UNCHANGED <<fileVars, MuttLogger, arg, ret, saveOut>>

\* ll is NULL: the loop is over and log_queue_empty() is called
log_queue_flush_empty ==
  /\ Flushing
  /\ flush_ll > Len(LogQueue)
  /\ op' = "log_queue_flush.empty"
  /\ LogQueue' = <<>>
  /\ LogQueueCount' = 0
  /\ allocated' = allocated - Len(LogQueue)
  /\ flush_ll' = 0
  /\ UNCHANGED <<fileVars, LogQueueMax, MuttLogger, arg, ret, errno, tsVars,
                 fileOut, errOut, saveOut, calls>>

\* "%H:%M:%S" of the time t
strftimeHMS(t) == <<"%H:%M:%S", t>>

\* SaveLines with a newline after every LogLine
RECURSIVE SaveLines_AlwaysNewline(_)
SaveLines_AlwaysNewline(q) ==
  IF q = <<>> THEN <<>>
  ELSE << <<strftimeHMS(q[1].time), LevelChar(q[1].level), q[1].message,
            TRUE>> >> \o SaveLines_AlwaysNewline(Tail(q))

\* the lines log_queue_save writes for the queue q
RECURSIVE SaveLines(_)
SaveLines(q) ==
  IF q = <<>> THEN <<>>
  ELSE << <<strftimeHMS(q[1].time), LevelChar(q[1].level), q[1].message,
            q[1].level <= 0>> >> \o SaveLines(Tail(q))

\* log_queue_save(fp): fp is NULL or an open file
log_queue_save(fp) ==
  /\ op' = "log_queue_save"
  /\ UNCHANGED <<MuttLogger, flush_ll>>
  /\ allocated' = allocated
  /\ arg' = [fp |-> fp]
  /\ IF fp = NULL
     THEN /\ ret' = 0
          /\ saveOut' = <<>>
          /\ errno' = errno
     ELSE /\ ret' = Len(LogQueue)
          /\ saveOut' = SaveLines(LogQueue)
          /\ errno' \in (IF LogQueue = <<>> THEN {errno}
                         ELSE MayClobber(errno))
  /\ fileOut' = <<>>
  /\ errOut' = <<>>
  /\ calls' = <<>>
  /\ UNCHANGED <<fileVars, queueVars, tsVars>>

---------------------------------------------------------------------------
(* mutt_account_match() of mutt_account.c.  An Account is                  *)
(* [type, host, port, flags, user]; a host is a sequence of characters, a  *)
(* user a string, flags the set of the flags that are set.  env holds the  *)
(* configuration variables Username, ImapUser, PopUser and NntpUser (NULL  *)
(* when unset) and the set of the USE_ options the build defines.          *)

tolower(ch) == IF ch = "M" THEN "m" ELSE ch

\* 0 when a and b are equal but for the case of their letters
mutt_str_strcasecmp(a, b) ==
  IF Len(a) = Len(b) /\ \A i \in 1 .. Len(a) : tolower(a[i]) = tolower(b[i])
  THEN 0 ELSE 1

\* 0 when a and b are equal
strcmp(a, b) == IF a = b THEN 0 ELSE 1

\* the value of the C expression (x == 0)
IsZero(x) == IF x = 0 THEN 1 ELSE 0

\* the value of user before the comparisons of the users
DefaultUser(type, env) ==
  IF "USE_NNTP" \in env.build /\ type = "MUTT_ACCT_TYPE_NNTP"
     /\ env.NntpUser # NULL
  THEN env.NntpUser
  ELSE IF "USE_POP" \in env.build /\ type = "MUTT_ACCT_TYPE_POP"
          /\ env.PopUser # NULL
  THEN env.PopUser
  ELSE IF "USE_IMAP" \in env.build /\ type = "MUTT_ACCT_TYPE_IMAP"
          /\ env.ImapUser # NULL
  THEN env.ImapUser
  ELSE NONULL(env.Username)

mutt_account_match(a1, a2, env) ==
  LET user == DefaultUser(a1.type, env)
  IN  IF a1.type # a2.type THEN 0
      ELSE IF mutt_str_strcasecmp(a1.host, a2.host) # 0 THEN 0
      ELSE IF a1.port # a2.port THEN 0
      ELSE IF "MUTT_ACCT_USER" \in a1.flags \cap a2.flags
      THEN IsZero(strcmp(a1.user, a2.user))
      ELSE IF "USE_NNTP" \in env.build /\ a1.type = "MUTT_ACCT_TYPE_NNTP"
      THEN (IF "MUTT_ACCT_USER" \in a1.flags /\ a1.user # "" THEN 0 ELSE 1)
      ELSE IF "MUTT_ACCT_USER" \in a1.flags
      THEN IsZero(strcmp(a1.user, user))
      ELSE IF "MUTT_ACCT_USER" \in a2.flags
      THEN IsZero(strcmp(a2.user, user))
      ELSE 1

AccountTypes ==
  {"MUTT_ACCT_TYPE_IMAP", "MUTT_ACCT_TYPE_POP", "MUTT_ACCT_TYPE_NNTP"}

\* host names: two that differ in case only, and another one
Hosts == {<<"M", "x">>, <<"m", "x">>, <<"m", "y">>}

\* the accounts compared: the user field is empty unless MUTT_ACCT_USER is
\* set
Accounts ==
  [type : AccountTypes, host : Hosts, port : {143, 993},
   flags : {{"MUTT_ACCT_USER"}}, user : {"", "u", "v"}]
  \cup [type : AccountTypes, host : Hosts, port : {143, 993},
        flags : {{}}, user : {""}]

\* configurations: no user configured, Username only, and a user per
\* account type, in a build with and in one without USE_NNTP
Envs ==
  { [Username |-> NULL, ImapUser |-> NULL, PopUser |-> NULL,
     NntpUser |-> NULL, build |-> {"USE_IMAP", "USE_POP", "USE_NNTP"}],
    [Username |-> "u", ImapUser |-> NULL, PopUser |-> NULL,
     NntpUser |-> NULL, build |-> {"USE_IMAP", "USE_POP"}],
    [Username |-> "u", ImapUser |-> "v", PopUser |-> "v",
     NntpUser |-> "v", build |-> {"USE_IMAP", "USE_POP", "USE_NNTP"}],
    [Username |-> "u", ImapUser |-> "v", PopUser |-> "v",
     NntpUser |-> "v", build |-> {}] }

\* a call mutt_account_match(a1, a2) under the configuration env
call_mutt_account_match(a1, a2, env) ==
  /\ op' = "mutt_account_match"
  /\ arg' = [a1 |-> a1, a2 |-> a2, env |-> env]
  /\ ret' = mutt_account_match(a1, a2, env)
  /\ UNCHANGED <<fileVars, queueVars, MuttLogger, flush_ll, allocated, errno,
                 tsVars, fileOut, errOut, saveOut, calls>>

---------------------------------------------------------------------------
(* Specifications *)

\* calls of mutt_account_match: a1 on one host and port, a2 any account
NextAccount ==
  \E a1 \in {a \in Accounts : a.host = <<"M", "x">> /\ a.port = 143},
     a2 \in Accounts, env \in Envs :
    call_mutt_account_match(a1, a2, env)

SpecAccount == Init /\ [][NextAccount]_vars

\* the File sink's configuration
NextFile ==
  \/ \E file \in Names \cup {NULL} : log_file_set_filename(file)
  \/ \E level \in -1 .. 6 : log_file_set_level(level)
  \/ \E version \in Versions : log_file_set_version(version)
  \/ \E verbose \in BOOLEAN : log_file_close(verbose)
  \/ \E verbose \in BOOLEAN : log_file_open(verbose)

SpecFile == Init /\ [][NextFile]_vars

\* the File and the Console sink's dispatchers, on one log file
NextDisp ==
  \/ log_file_set_filename("a.log")
  \/ \E level \in {-1, 0, 2, 5, 6} : log_file_set_level(level)
  \/ log_file_close(TRUE)
  \/ \E c \in DirectCalls : log_disp_file(c)
  \/ \E c \in DirectCalls : log_disp_stderr(c)

SpecDisp == Init /\ [][NextDisp]_vars

\* the Queue sink and its management, replayed while no log file is open
NextQueue ==
  \/ \E c \in QueueCalls : log_disp_queue(c)
  \/ \E size \in -1 .. MaxQueue : log_queue_set_max_size(size)
  \/ log_queue_empty
  \/ \E disp \in Dispatchers : log_queue_flush(disp)
  \/ \E fp \in {NULL, "save.txt"} : log_queue_save(fp)

SpecQueue == Init /\ [][NextQueue]_vars

\* the Queue sink replayed through the File and the Console sink, with a
\* log file that is opened and closed
NextReplay ==
  \/ \E c \in QueueCalls : log_disp_queue(c)
  \/ \E disp \in Dispatchers : log_queue_flush(disp)
  \/ log_file_set_filename("a.log")
  \/ \E level \in {0, 1} : log_file_set_level(level)

SpecReplay == Init /\ [][NextReplay]_vars

\* a bound is set on the empty queue, then LogLines are added whose line
\* argument numbers them 1, 2, 3, ...
NextLine == IF op = "log_disp_queue" THEN arg.line + 1 ELSE 1

NextEvict ==
  \/ /\ op = "init"
     /\ \E size \in 0 .. MaxQueue : log_queue_set_max_size(size)
  \/ /\ NextLine <= MaxInserts
     /\ \E c \in QueueCalls : log_disp_queue([c EXCEPT !.line = NextLine])

SpecEvict == Init /\ [][NextEvict]_vars

\* the call made while MuttLogger is watched: a warning
LoggerCalls ==
  { [stamp |-> 1, file |-> "x.c", line |-> 10, function |-> "f",
     level |-> LL_WARNING, text |-> Str("hello", 5)] }

\* every operation of the module, and the callers' assignments to
\* MuttLogger; no call is made while a log_queue_flush is running
NextLogger ==
  \/ /\ flush_ll = 0
     /\ \/ \E disp \in AllDispatchers : assign_MuttLogger(disp)
        \/ log_file_set_filename("a.log")
        \/ \E level \in {0, 1} : log_file_set_level(level)
        \/ log_file_set_version("-1.0")
        \/ log_file_open(TRUE)
        \/ log_file_close(TRUE)
        \/ \E c \in LoggerCalls : log_disp_file(c)
        \/ \E c \in LoggerCalls : log_disp_stderr(c)
        \/ \E c \in LoggerCalls : log_disp_queue(c)
        \/ log_queue_set_max_size(1)
        \/ log_queue_empty
        \/ log_queue_save("save.txt")
  \/ \E disp \in AllDispatchers : log_queue_flush_first(disp)
  \/ log_queue_flush_disp
  \/ log_queue_flush_empty

SpecLogger == Init /\ [][NextLogger]_vars

\* the log file is opened, renamed and closed while records are
\* dispatched to it
NextSession ==
  \/ \E file \in Names \cup {NULL} : log_file_set_filename(file)
  \/ \E level \in {0, 1} : log_file_set_level(level)
  \/ \E verbose \in BOOLEAN : log_file_open(verbose)
  \/ \E verbose \in BOOLEAN : log_file_close(verbose)
  \/ \E c \in LoggerCalls : log_disp_file(c)
  \/ \E c \in LoggerCalls : log_disp_stderr(c)

SpecSession == Init /\ [][NextSession]_vars

\* the times timestamp() is given and the times time(NULL) returns when it
\* is called on its own: the epoch itself and the seconds after it
Times == 0 .. MaxTime

\* a call timestamp(stamp) while time(NULL) returns now; ret is the string
\* returned
call_timestamp(stamp, now) ==
  LET t == timestamp(stamp, now, TS)
  IN  /\ op' = "timestamp"
      /\ arg' = [stamp |-> stamp, now |-> now]
      /\ last' = t.last
      /\ buf' = t.buf
      /\ ret' = t.buf
      /\ UNCHANGED <<fileVars, queueVars, MuttLogger, flush_ll, allocated,
                     errno, fileOut, errOut, saveOut, calls>>

\* timestamp() called on its own and by the File sink
NextTimestamp ==
  \/ \E stamp \in Times, now \in Times : call_timestamp(stamp, now)
  \/ log_file_set_filename("a.log")
  \/ log_file_open(TRUE)
  \/ log_file_close(TRUE)
  \/ \E c \in LoggerCalls : log_disp_file(c)

SpecTimestamp == Init /\ [][NextTimestamp]_vars

\* the program has not been stopped
Running == op \notin {"crash", "out of memory"}

\* calls of log_disp_queue whose text is short, or has LONG_STRING - 1
\* characters (the most buf holds), LONG_STRING characters (the
\* description is written at the end of buf, with size 0) or
\* LONG_STRING + 1 characters
LongCalls ==
  [stamp : {1}, file : {"x.c"}, line : {10}, function : {"f"},
   level : {LL_PERROR, LL_WARNING},
   text : {Str("hello", 5)}
          \cup {Str("long", n) : n \in (LONG_STRING - 1) .. (LONG_STRING + 1)}]

NextLong ==
  /\ Running
  /\ \/ \E c \in LongCalls : log_disp_queue(c)
     \/ log_queue_set_max_size(1)
     \/ log_queue_empty
     \/ log_queue_save("save.txt")

SpecLong == Init /\ [][NextLong]_vars

\* log_queue_flush run step by step through each dispatcher, on queues
\* with and without a bound, with the log file open or closed
NextFlush ==
  \/ /\ flush_ll = 0
     /\ \/ \E c \in LoggerCalls : log_disp_queue(c)
        \/ \E size \in 0 .. MaxQueue : log_queue_set_max_size(size)
        \/ log_file_set_filename("a.log")
        \/ \E level \in {0, 1} : log_file_set_level(level)
  \/ \E disp \in AllDispatchers : log_queue_flush_first(disp)
  \/ log_queue_flush_disp
  \/ log_queue_flush_empty

\* a log_queue_flush that has started goes on running: its next step is
\* taken whenever there is one
SpecFlush ==
  /\ Init
  /\ [][NextFlush]_vars
  /\ WF_vars(log_queue_flush_disp)
  /\ WF_vars(log_queue_flush_empty)

Next ==
  \/ NextTimestamp
  \/ NextSession
  \/ NextLong
  \/ NextFlush
  \/ NextFile \/ NextDisp \/ NextQueue \/ NextReplay \/ NextEvict
  \/ NextLogger \/ NextAccount

Spec == Init /\ [][Next]_vars

---------------------------------------------------------------------------
(* Properties *)

\* the last LogLine of a queue
LastLine(q) == q[Len(q)]

\* C1: a bound N is set on the empty queue and LogLines numbered 1, 2, ...
\* are added.  After the m-th, the queue holds the lines m-k+1 .. m in this
\* order, where k = N when N > 0 and m > N (one LogLine, the oldest, was
\* evicted by each addition beyond N) and k = m otherwise (nothing is
\* evicted before the bound is reached, and never when the bound is 0).
C1_KeepsMostRecent ==
  op = "log_disp_queue" =>
    LET m == arg.line
        k == IF LogQueueMax > 0 /\ m > LogQueueMax THEN LogQueueMax ELSE m
    IN  /\ Len(LogQueue) = k
        /\ LogQueueCount = k
        /\ \A i \in 1 .. k : LogQueue[i].line = m - k + i

C1_Witness ==
  /\ op = "log_disp_queue"
  /\ LogQueueMax > 1
  /\ arg.line > LogQueueMax + 1
  /\ Len(LogQueue) = LogQueueMax
  /\ LogQueue[1].line = arg.line - LogQueueMax + 1

\* C2: whenever LogQueueMax is not 0, the queue holds at most LogQueueMax
\* LogLines.
C2_QueueWithinBound ==
  LogQueueMax # 0 => Len(LogQueue) <= LogQueueMax

\* C3: log_queue_flush calls the dispatcher once per LogLine of the queue,
\* in the queue's order, with the LogLine's time, file, line, function and
\* level and with its message as the text; it leaves the queue empty, so
\* that a flush that follows a flush makes no call and writes nothing.
C3_FlushReplaysInOrder ==
  [][op' = "log_queue_flush" =>
       /\ Len(calls') = Len(LogQueue)
       /\ \A i \in 1 .. Len(LogQueue) :
            /\ calls'[i].stamp = LogQueue[i].time
            /\ calls'[i].file = LogQueue[i].file
            /\ calls'[i].line = LogQueue[i].line
            /\ calls'[i].function = LogQueue[i].function
            /\ calls'[i].level = LogQueue[i].level
            /\ calls'[i].text = LogQueue[i].message
       /\ LogQueue' = <<>>
       /\ LogQueueCount' = 0
       /\ op = "log_queue_flush" =>
            (calls' = <<>> /\ fileOut' = <<>> /\ errOut' = <<>>)]_vars

\* a flush of two different LogLines, one of which the dispatcher filtered
C3_Witness ==
  /\ op = "log_queue_flush"
  /\ Len(calls) = 2
  /\ calls[1] # calls[2]
  /\ Len(errOut) = 1
  /\ LogQueue = <<>>
  /\ LogQueueCount = 0

\* C4: the log file is open only while a file name is set.
C4_HandleOnlyWithName ==
  LogFileFP # NULL => LogFileName # NULL

\* C5: the error description a dispatcher appends to a LL_PERROR record is
\* that of errno as it was when the dispatcher was called.
C5_ErrnoOfTheCall ==
  [][/\ (op' \in {"log_disp_file", "log_disp_stderr"} /\ arg'.level = LL_PERROR)
          => /\ \A i \in 1 .. Len(fileOut') :
                  fileOut'[i][2][6] = ErrorText(errno)
             /\ \A i \in 1 .. Len(errOut') : errOut'[i][4] = ErrorText(errno)
     /\ (op' = "log_disp_queue" /\ arg'.level = LL_PERROR)
          => LastLine(LogQueue').message
               = Truncate(arg'.text \o ErrorText(errno), LONG_STRING - 1)]_vars

\* C6: log_disp_file returns 0 and writes nothing when the log file is not
\* open, when the level is below LL_PERROR and when it is above
\* LogFileLevel; otherwise it writes one record, holding the text, to the
\* log file.
C6_FileFilter ==
  op = "log_disp_file" =>
    IF LogFileFP = NULL \/ arg.level < -3 \/ arg.level > LogFileLevel
    THEN ret = 0 /\ fileOut = <<>>
    ELSE /\ Len(fileOut) = 1
         /\ fileOut[1][1] = LogFileFP
         /\ fileOut[1][2][1] = "record"
         /\ fileOut[1][2][5] = arg.text

\* a record at the threshold is written
C6_Witness ==
  /\ op = "log_disp_file"
  /\ LogFileFP # NULL
  /\ LogFileLevel > 0
  /\ arg.level = LogFileLevel
  /\ Len(fileOut) = 1

\* the LogLines of q that pass the level filter with this threshold
RECURSIVE Shown(_, _)
Shown(q, threshold) ==
  IF q = <<>> THEN <<>>
  ELSE (IF q[1].level >= -3 /\ q[1].level <= threshold THEN <<q[1]>>
        ELSE <<>>) \o Shown(Tail(q), threshold)

\* s ends with the whole of the string d
EndsWith(s, d) ==
  Len(s) >= Len(d) /\ SubSeq(s, Len(s) - Len(d) + 1, Len(s)) = d

\* the number of times the description d occurs in s, whole or in part
RECURSIVE Occurrences(_, _)
Occurrences(s, d) ==
  IF s = <<>> THEN 0
  ELSE (IF s[1].id = d[1].id THEN 1 ELSE 0) + Occurrences(Tail(s), d)

C8_ZeroCloses ==
  (op = "log_file_set_level" /\ arg.level = 0 /\ ret = 0) => LogFileFP = NULL

\* C8, amended: a log_file_set_level(0) that returns 0 closes the log file
\* when the level was not 0; when the level was 0 already it changes
\* nothing, and a log file opened at level 0 stays open.
C8_ChangeToZeroCloses ==
  [][(op' = "log_file_set_level" /\ arg'.level = 0 /\ ret' = 0) =>
       IF LogFileLevel # 0
       THEN LogFileFP' = NULL /\ LogFileLevel' = 0
       ELSE UNCHANGED fileVars /\ fileOut' = <<>>]_vars

\* the level is set to 0 while the log file is open: its closing line is
\* written
C8_Witness ==
  /\ op = "log_file_set_level"
  /\ arg.level = 0
  /\ ret = 0
  /\ LogFileFP = NULL
  /\ Len(fileOut) = 1
  /\ fileOut[1][2][1] = "closing"

\* C9: log_file_set_filename returns 0 only when the name is the current
\* one, and nothing changes, or when the log file is open under the new
\* name after the call; when the name changes while the log file is not
\* open it returns -1 and only records the name.
C9_ZeroMeansOpened ==
  [][op' = "log_file_set_filename" =>
       /\ ret' = 0 =>
            \/ LogFileName = arg'.file /\ UNCHANGED fileVars
            \/ arg'.file # NULL /\ LogFileFP' = arg'.file
       /\ (LogFileName # arg'.file /\ LogFileFP = NULL) =>
            /\ ret' = -1
            /\ LogFileName' = arg'.file
            /\ LogFileFP' = NULL
            /\ fileOut' = <<>>]_vars

\* C10: log_file_open returns -1 and leaves the handle as it is when no
\* file name is set; when the open fails it returns -1 and the log file is
\* closed, the file that was open having got its closing line; it returns 0
\* only with the log file open, on the file of the name set; after a
\* failure no startup line is written.
C10_OpenResult ==
  [][op' = "log_file_open" =>
       /\ LogFileName = NULL =>
            (ret' = -1 /\ LogFileFP' = LogFileFP /\ fileOut' = <<>>)
       /\ (LogFileName # NULL /\ ~arg'.opened) =>
            /\ ret' = -1
            /\ LogFileFP' = NULL
            /\ IF LogFileFP = NULL THEN fileOut' = <<>>
               ELSE /\ Len(fileOut') = 1
                    /\ fileOut'[1][1] = LogFileFP
                    /\ fileOut'[1][2][1] = "closing"
       /\ ret' = 0 => (LogFileFP' # NULL /\ LogFileFP' = LogFileName)
       /\ ret' \in {0, -1}
       /\ ret' = -1 =>
            \A i \in 1 .. Len(fileOut') : fileOut'[i][2][1] # "banner"]_vars

\* an open that fails while a log file is open
C10_Witness ==
  /\ op = "log_file_open"
  /\ ret = -1
  /\ ~arg.opened
  /\ LogFileName # NULL
  /\ LogFileFP = NULL
  /\ Len(fileOut) = 1

\* C11: LogFileLevel is within 0 .. 5 in every state.  A log_file_set_level
\* with a level below 0 or above 5 returns -1 and leaves the level, the
\* handle and the name as they were, writing nothing.  Hence a call of
\* level LL_PERROR, LL_ERROR or LL_WARNING is never filtered by the level
\* test: log_disp_stderr prints it, and writes it to the log file when one
\* is open, and log_disp_file writes it whenever the log file is open.
C11_LevelInRange ==
  /\ [](LogFileLevel \in 0 .. 5)
  /\ [][(op' = "log_file_set_level" /\ (arg'.level < 0 \/ arg'.level > 5)) =>
          /\ ret' = -1
          /\ UNCHANGED fileVars
          /\ fileOut' = <<>>]_vars
  /\ []((op = "log_disp_stderr" /\ arg.level \in LL_PERROR .. LL_WARNING) =>
          /\ Len(errOut) = 1
          /\ LogFileFP # NULL => Len(fileOut) = 1)
  /\ []((op = "log_disp_file" /\ arg.level \in LL_PERROR .. LL_WARNING
           /\ LogFileFP # NULL) =>
          Len(fileOut) = 1)

\* a level below the range is refused while the log file is open at
\* level 5
C11_Witness ==
  /\ op = "log_file_set_level"
  /\ arg.level < 0
  /\ ret = -1
  /\ LogFileLevel = 5
  /\ LogFileFP # NULL

\* the number of characters of a record line of the log file:
\* "[%s]<%c> %s() " with the timestamp, the level's character and the
\* function, the text, the ": %s" of the error and the newline
CharsWritten(rec) ==
  Len("[") + Len("YYYY-MM-DD HH:MM:SS") + Len("]<") + Len(rec[3])
    + Len("> ") + Len(rec[4]) + Len("() ")
    + StrLen(rec[5]) + StrLen(rec[6]) + (IF rec[7] THEN 1 ELSE 0)

\* C12: when log_disp_file writes a record, it returns the number of
\* characters it wrote to the log file for it (prefix, text, error
\* description and newline), and this number is above 0.
C12_ReturnsCharsWritten ==
  (op = "log_disp_file" /\ fileOut # <<>>) =>
    /\ ret = CharsWritten(fileOut[1][2])
    /\ ret > 0

\* C13: every LogLine of the queue has a level within LL_PERROR ..
\* LL_DEBUG5, so that log_queue_save reads the level's character inside
\* LevelAbbr.
C13_StoredLevelsInRange ==
  /\ \A i \in 1 .. Len(LogQueue) :
       LogQueue[i].level \in LL_PERROR .. LL_DEBUG5
  /\ \A i \in 1 .. Len(saveOut) : saveOut[i][2] # "out of bounds"

\* C14: log_disp_stderr prints a record exactly when its level is within
\* LL_PERROR .. LogFileLevel, whether or not the log file is open, and
\* otherwise returns 0 and prints and writes nothing; a record it prints
\* is passed to log_disp_file with the same level and text, so that it is
\* also written to the log file when that is open.
C14_ConsoleFilter ==
  op = "log_disp_stderr" =>
    IF LL_PERROR <= arg.level /\ arg.level <= LogFileLevel
    THEN /\ Len(errOut) = 1
         /\ errOut[1][3] = arg.text
         /\ IF LogFileFP = NULL THEN fileOut = <<>>
            ELSE /\ Len(fileOut) = 1
                 /\ fileOut[1][1] = LogFileFP
                 /\ fileOut[1][2][1] = "record"
                 /\ fileOut[1][2][3] = LevelChar(arg.level)
                 /\ fileOut[1][2][5] = arg.text
    ELSE ret = 0 /\ errOut = <<>> /\ fileOut = <<>>

\* a record at the threshold is printed and written to the open log file
C14_Witness ==
  /\ op = "log_disp_stderr"
  /\ LogFileFP # NULL
  /\ LogFileLevel > 0
  /\ arg.level = LogFileLevel
  /\ Len(errOut) = 1
  /\ Len(fileOut) = 1

\* C15: log_queue_save leaves the queue, its count and its bound as they
\* were.  Given an open file it returns the number of LogLines of the queue
\* and writes one line per LogLine, in the queue's order, with the
\* LogLine's time and message, followed by a newline only when the level
\* is 0 or below; it returns 0 and writes nothing when the queue is empty
\* and when the file is NULL.
C15_SaveKeepsQueue ==
  [][op' = "log_queue_save" =>
       /\ UNCHANGED queueVars
       /\ IF arg'.fp = NULL \/ LogQueue = <<>>
          THEN ret' = 0 /\ saveOut' = <<>>
          ELSE /\ ret' = Len(LogQueue)
               /\ ret' = LogQueueCount
               /\ Len(saveOut') = Len(LogQueue)
               /\ \A i \in 1 .. Len(LogQueue) :
                    /\ saveOut'[i][1] = strftimeHMS(LogQueue[i].time)
                    /\ saveOut'[i][3] = LogQueue[i].message
                    /\ saveOut'[i][4] = (LogQueue[i].level <= 0)]_vars

\* a queue of an error and a debug line is saved
C15_Witness ==
  /\ op = "log_queue_save"
  /\ ret = 2
  /\ Len(LogQueue) = 2
  /\ Len(saveOut) = 2
  /\ saveOut[1][4] # saveOut[2][4]

\* C16: MuttLogger is log_disp_stderr at startup, and only a caller's
\* assignment changes it: every call of a dispatcher, every step of
\* log_queue_flush whatever its target, log_queue_empty, log_queue_save,
\* log_queue_set_max_size and the log_file_ functions leave it as it was.
C16_LoggerSetByCallerOnly ==
  /\ (op = "init" => MuttLogger = "log_disp_stderr")
  /\ [][MuttLogger' # MuttLogger =>
          (op' = "MuttLogger" /\ MuttLogger' = arg'.disp)]_vars
  /\ [][op' # "MuttLogger" => MuttLogger' = MuttLogger]_vars

\* the queue was flushed through log_disp_file while MuttLogger held
\* log_disp_queue
C16_Witness ==
  /\ op = "log_queue_flush.empty"
  /\ arg.disp = "log_disp_file"
  /\ Len(calls) > 0
  /\ MuttLogger = "log_disp_queue"

\* the user an account stands for: its own when MUTT_ACCT_USER is set, the
\* configured default user of its type otherwise
AccountUser(a, env) ==
  IF "MUTT_ACCT_USER" \in a.flags THEN a.user ELSE DefaultUser(a.type, env)

\* C17: mutt_account_match returns 0 when the two accounts have the same
\* type, the same host but for the case of the letters, the same port and
\* the same user.
C17_ZeroWhenMatch ==
  (/\ op = "mutt_account_match"
   /\ arg.a1.type = arg.a2.type
   /\ mutt_str_strcasecmp(arg.a1.host, arg.a2.host) = 0
   /\ arg.a1.port = arg.a2.port
   /\ AccountUser(arg.a1, arg.env) = AccountUser(arg.a2, arg.env))
  => ret = 0

\* C18: a log_queue_flush that has started comes to its end, with the
\* queue empty, whatever dispatcher it was given.
C18_FlushTerminates ==
  (op = "log_queue_flush.first")
    ~> (op = "log_queue_flush.empty" /\ LogQueue = <<>>)

\* C19: log_disp_queue writes inside buf only: for a LL_PERROR call the
\* offset at which the description is written is at most LONG_STRING (so
\* that the size that remains has not wrapped around), the program is not
\* stopped, and the message stored is shorter than LONG_STRING whatever
\* the length of the text.
C19_WritesInsideBuf ==
  /\ op # "crash"
  /\ op = "log_disp_queue" =>
       /\ arg.level = LL_PERROR => SuffixOffset(arg) <= LONG_STRING
       /\ StrLen(LastLine(LogQueue).message) < LONG_STRING

\* C20: the LogLines allocated by log_disp_queue and not freed are those
\* of the queue: a LogLine that log_queue_add takes out of the queue is
\* freed, and log_queue_empty and log_queue_flush free them all.
C20_QueueOwnsLogLines ==
  allocated = Len(LogQueue)

\* the kinds of the lines a step wrote to log files, in order
LineKinds(out) == [i \in 1 .. Len(out) |-> out[i][2][1]]

\* what a step does to the session of the log file: a startup line is
\* written only by a step that opens a handle, as the first line through
\* it; a record only through a handle that was open and stays open; a
\* closing line only through the handle that was open, which the step
\* closes, with at most one closing line per handle and, on a re-open,
\* before the startup line of the new handle; a closed log file gets no
\* closing line.
SessionStep ==
  /\ LineKinds(fileOut') \in
       {<<>>, <<"banner">>, <<"record">>, <<"closing">>,
        <<"closing", "banner">>}
  /\ \A i \in 1 .. Len(fileOut') :
       LET line == fileOut'[i]
       IN  /\ line[2][1] = "banner" =>
                (LogFileFP' = line[1] /\ (LogFileFP = NULL \/ i = 2))
           /\ line[2][1] = "record" =>
                (LogFileFP = line[1] /\ LogFileFP' = line[1])
           /\ line[2][1] = "closing" =>
                /\ LogFileFP = line[1]
                /\ LogFileFP # NULL
                /\ (LogFileFP' = NULL \/ Len(fileOut') = 2)
  /\ (LogFileFP = NULL /\ LogFileFP' # NULL) =>
       LineKinds(fileOut') = <<"banner">>
  /\ (LogFileFP # NULL /\ LogFileFP' = NULL) =>
       LineKinds(fileOut') = <<"closing">>
  /\ (LogFileFP # NULL /\ LogFileFP' # NULL /\ LogFileFP' # LogFileFP) =>
       LineKinds(fileOut') = <<"closing", "banner">>
  /\ (op' = "log_file_close" /\ LogFileFP = NULL) => fileOut' = <<>>
  /\ (op' \in {"log_file_open", "log_file_set_filename"}
        /\ LogFileFP # NULL /\ LogFileFP' # NULL
        /\ (op' = "log_file_open" \/ LogFileName' # LogFileName)
        /\ LogFileName' # NULL) =>
       LineKinds(fileOut') = <<"closing", "banner">>

\* C21: the lines written through one handle are a startup line, then
\* records, then at most one closing line, and nothing after it;
\* log_file_close on a closed log file writes nothing; a re-open writes
\* the closing line of the old handle before the startup line of the new
\* one; and a record is written only to the file LogFileName names.
C21_WellBracketedSession ==
  /\ [][SessionStep]_vars
  /\ [](\A i \in 1 .. Len(fileOut) :
          fileOut[i][2][1] = "record" => fileOut[i][1] = LogFileName)

\* the time a call timestamp(stamp) is to format
EffectiveTime(stamp, now) == IF stamp = 0 THEN now ELSE stamp

\* C22: timestamp(t) returns the formatting of t, or of the current time
\* when t is 0, whatever calls came before; it formats again only when
\* this time differs from the last one formatted; and the time stamp of a
\* record written by log_disp_file with a stamp is the formatting of that
\* stamp.
C22_CacheTransparent ==
  /\ [][op' = "timestamp" =>
          LET t == EffectiveTime(arg'.stamp, arg'.now)
          IN  /\ ret' = strftime(t)
              /\ last' = t
              /\ t = last => buf' = buf]_vars
  /\ [][(op' = "log_disp_file" /\ arg'.stamp # 0) =>
          \A i \in 1 .. Len(fileOut') :
            fileOut'[i][2][2] = strftime(arg'.stamp)]_vars

====
